---------------------------- MODULE Spec2Model ----------------------------
(***************************************************************************)
(* State-machine model of the interactive layer of the TechPioneers page:  *)
(* the Carousel (src/src/js/modules/carousel.js), the ThemeSwitcher and    *)
(* the Modal (src/src/js/modules/theme-switcher.js), the Navigation and    *)
(* the AnimationController (src/src/js/modules/navigation.js) and the      *)
(* entry point that builds them (src/unnamed/part_001).                    *)
(*                                                                         *)
(* Each controller object, together with the DOM nodes and browser         *)
(* facilities it writes, is one record-valued variable; every method is an *)
(* operator from record to record, composed exactly as the methods call    *)
(* one another, and every event handler is one action.  Pixel arithmetic   *)
(* is carried out on integers.                                             *)
(***************************************************************************)
EXTENDS Integers, FiniteSets, Sequences, TLC

VARIABLES
    carousel,       \* the Carousel instance, its buttons and its live region
    innerWidth,     \* window.innerWidth
    resizeTimeout,  \* TRUE while the debounce timer of the resize handler is pending
    hovering,       \* TRUE while the mouse pointer is over the carousel container
    last,           \* the carousel handler that ran last: its name and, for goToSlide, its argument
    sess,           \* the drag session under way or just ended, as the user sees it
    ts,             \* the ThemeSwitcher instance, the document, the store and the OS signal
    tlast,          \* the theme handler that ran last and what it started from
    nav,            \* the Navigation instance, the mobile menu, the page body and the hide timers
    modal,          \* the Modal instance, the dialog, the page body and the keyboard focus
    anim,           \* the AnimationController instance, the animatable elements and the OS motion signal
    boot,           \* the position of the entry point's init() and the two carousels it built
    rs,             \* the timers of the carousel's resize listener and the time since the last resize event
    spy             \* the sections and links of the scroll spy and the scroll position

carouselVars == <<carousel, innerWidth, resizeTimeout, hovering, last, sess>>
themeVars == <<ts, tlast>>
vars == <<carousel, innerWidth, resizeTimeout, hovering, last, sess, ts, tlast, nav, modal, anim, boot, rs, spy>>

Max(a, b) == IF a >= b THEN a ELSE b
Min(a, b) == IF a <= b THEN a ELSE b

(***************************************************************************)
(* Bounds of the model.                                                    *)
(***************************************************************************)
MaxSlides == 6        \* carousels of 1 .. MaxSlides slides
MaxOver == 4          \* goToSlide is called with -MaxOver .. MaxSlides + MaxOver
MaxIconTimers == 2    \* icon-animation timers pending at once

(***************************************************************************)
(* Carousel: constants of the code.                                        *)
(***************************************************************************)
mobile == 768
tablet == 1024
desktop == 1440
threshold == 50
gap == 8

CarouselTypes == {"featured", "more-pioneers"}
\* One window width below the first breakpoint and one at each breakpoint.
WindowWidths == {600, mobile, tablet, desktop}
\* Pointer x coordinates: their differences are 0, +-30, +-50, +-51 and more.
PointerPositions == {0, 30, 50, 101}
GoToArgs == (0 - MaxOver) .. (MaxSlides + MaxOver)

(***************************************************************************)
(* Carousel: methods.                                                      *)
(***************************************************************************)
slidesToShowFor(width, ctype) ==
    IF width >= desktop THEN (IF ctype = "featured" THEN 4 ELSE 3)
    ELSE IF width >= tablet THEN (IF ctype = "featured" THEN 4 ELSE 2)
    ELSE IF width >= mobile THEN 2
    ELSE 1

updateSlidesToShow(s, width) ==
    [s EXCEPT !.slidesToShow = slidesToShowFor(width, s.ctype),
              !.slidesToScroll = 1]

getMaxIndex(s) == Max(0, s.totalSlides - s.slidesToShow)

\* The viewport spans the window and the track has no padding.
updateCarousel(s, width) ==
    LET slideWidth == width \div s.slidesToShow
        offset == (0 - s.currentIndex) * (slideWidth + gap)
    IN  [s EXCEPT !.prevTranslate = offset, !.currentTranslate = offset]

updateButtonsAtZeroOnly(s) ==
    [s EXCEPT !.prevDisabled = (s.currentIndex = 0 /\ ~s.infinite),
              !.nextDisabled = FALSE]

updateButtons(s) ==
    [s EXCEPT !.prevDisabled = (s.currentIndex = 0 /\ ~s.infinite),
              !.nextDisabled = (s.currentIndex >= getMaxIndex(s) /\ ~s.infinite)]

announceSlideZeroBased(s) ==
    [s EXCEPT !.liveText = <<s.currentIndex, s.totalSlides>>]

\* the text "Slide {a} of {b}" is kept as the pair <<a, b>>
announceSlide(s) ==
    [s EXCEPT !.liveText = <<s.currentIndex + 1, s.totalSlides>>]

clampNoUpper(index, maxIndex) == Max(0, index)

clampNoLower(index, maxIndex) == Min(index, maxIndex)

clampIndex(index, maxIndex) == Max(0, Min(index, maxIndex))

goToSlide(s, index, width) ==
    LET moved == [s EXCEPT !.currentIndex = clampIndex(index, getMaxIndex(s))]
    IN  announceSlide(updateButtons(updateCarousel(moved, width)))

nextNoWrap(s, width) ==
    IF s.currentIndex < getMaxIndex(s)
    THEN goToSlide(s, s.currentIndex + s.slidesToScroll, width)
    ELSE s

next(s, width) ==
    IF s.currentIndex < getMaxIndex(s)
    THEN goToSlide(s, s.currentIndex + s.slidesToScroll, width)
    ELSE IF s.infinite THEN goToSlide(s, 0, width)
    ELSE s

prev(s, width) ==
    IF s.currentIndex > 0
    THEN goToSlide(s, s.currentIndex - s.slidesToScroll, width)
    ELSE IF s.infinite THEN goToSlide(s, getMaxIndex(s), width)
    ELSE s

stopAutoplay(s) ==
    IF s.autoplayInterval
    THEN [s EXCEPT !.autoplayInterval = FALSE, !.liveIntervals = @ - 1]
    ELSE s

startAutoplayNoClear(s) ==
    IF ~s.autoplay THEN s
    ELSE [s EXCEPT !.autoplayInterval = TRUE, !.liveIntervals = @ + 1]

startAutoplay(s) ==
    IF ~s.autoplay THEN s
    ELSE [stopAutoplay(s) EXCEPT !.autoplayInterval = TRUE,
                                 !.liveIntervals = @ + 1]

autoplayTick(s, width) ==
    IF s.currentIndex >= getMaxIndex(s)
    THEN (IF s.infinite THEN goToSlide(s, 0, width) ELSE stopAutoplay(s))
    ELSE next(s, width)

dragStart(s, x) ==
    stopAutoplay([s EXCEPT !.isDragging = TRUE, !.startPos = x])

dragMove(s, x) ==
    IF ~s.isDragging THEN s
    ELSE [s EXCEPT !.currentTranslate = s.prevTranslate + (x - s.startPos)]

dragEndSwapped(s, width) ==
    IF ~s.isDragging THEN s
    ELSE LET d == [s EXCEPT !.isDragging = FALSE]
             movedBy == d.currentTranslate - d.prevTranslate
             settled ==
                 IF movedBy > threshold /\ d.currentIndex < getMaxIndex(d)
                 THEN next(d, width)
                 ELSE IF movedBy < 0 - threshold /\ d.currentIndex > 0
                 THEN prev(d, width)
                 ELSE goToSlide(d, d.currentIndex, width)
         IN  IF settled.autoplay THEN startAutoplay(settled) ELSE settled

dragEndEager(s, width) ==
    IF ~s.isDragging THEN s
    ELSE LET d == [s EXCEPT !.isDragging = FALSE]
             movedBy == d.currentTranslate - d.prevTranslate
             settled ==
                 IF movedBy < 0 /\ d.currentIndex < getMaxIndex(d)
                 THEN next(d, width)
                 ELSE IF movedBy > 0 /\ d.currentIndex > 0
                 THEN prev(d, width)
                 ELSE goToSlide(d, d.currentIndex, width)
         IN  IF settled.autoplay THEN startAutoplay(settled) ELSE settled

dragEnd(s, width) ==
    IF ~s.isDragging THEN s
    ELSE LET d == [s EXCEPT !.isDragging = FALSE]
             movedBy == d.currentTranslate - d.prevTranslate
             settled ==
                 IF movedBy < 0 - threshold /\ d.currentIndex < getMaxIndex(d)
                 THEN next(d, width)
                 ELSE IF movedBy > threshold /\ d.currentIndex > 0
                 THEN prev(d, width)
                 ELSE goToSlide(d, d.currentIndex, width)
         IN  IF settled.autoplay THEN startAutoplay(settled) ELSE settled

\* The object the constructor leaves behind before it calls init().
carouselConstructor(total, ctype, infinite, autoplay) ==
    [totalSlides |-> total, ctype |-> ctype, infinite |-> infinite,
     autoplay |-> autoplay, slidesToShow |-> 1, slidesToScroll |-> 1,
     currentIndex |-> 0, isDragging |-> FALSE, startPos |-> 0,
     currentTranslate |-> 0, prevTranslate |-> 0,
     autoplayInterval |-> FALSE, liveIntervals |-> 0,
     prevDisabled |-> FALSE, nextDisabled |-> FALSE, liveText |-> <<>>]

carouselInit(s, width) ==
    LET shown == updateButtons(updateCarousel(updateSlidesToShow(s, width), width))
    IN  IF shown.autoplay THEN startAutoplay(shown) ELSE shown

resizeRecompute(s, width) ==
    updateButtons(goToSlide(updateSlidesToShow(s, width), s.currentIndex, width))

(***************************************************************************)
(* Carousel: the state after construction and the event handlers.          *)
(***************************************************************************)
NoSession == [origin |-> 0, downX |-> 0, lastX |-> 0, clean |-> FALSE]

\* A handler that can move the carousel ran: a drag under way is no longer a
\* plain pointer-down, pointer-moves, pointer-up session.
Disturbed == NoSession

\* A handler that cannot move the carousel ran: a session under way goes on,
\* one that has ended is forgotten.
Undisturbed == IF carousel.isDragging THEN sess ELSE NoSession

\* The page constructs its carousels with autoplay off; Autoplays is the set of
\* values of the autoplay option a specification lets the constructor receive.
CarouselStart(Autoplays) ==
    /\ innerWidth \in WindowWidths
    /\ \E total \in 1..MaxSlides, ctype \in CarouselTypes, infinite \in BOOLEAN,
          autoplay \in Autoplays :
          carousel = carouselInit(
              carouselConstructor(total, ctype, infinite, autoplay), innerWidth)
    /\ resizeTimeout = FALSE
    /\ hovering = FALSE
    /\ last = [op |-> "init", arg |-> 0]
    /\ sess = NoSession

Next_ ==
    /\ carousel' = next(carousel, innerWidth)
    /\ last' = [op |-> "next", arg |-> 0]
    /\ sess' = Disturbed
    /\ UNCHANGED <<innerWidth, resizeTimeout, hovering, ts, tlast, nav, modal, anim, boot, rs, spy>>

Prev_ ==
    /\ carousel' = prev(carousel, innerWidth)
    /\ last' = [op |-> "prev", arg |-> 0]
    /\ sess' = Disturbed
    /\ UNCHANGED <<innerWidth, resizeTimeout, hovering, ts, tlast, nav, modal, anim, boot, rs, spy>>

GoToSlide ==
    \E i \in GoToArgs :
        /\ carousel' = goToSlide(carousel, i, innerWidth)
        /\ last' = [op |-> "goToSlide", arg |-> i]
        /\ sess' = Disturbed
        /\ UNCHANGED <<innerWidth, resizeTimeout, hovering, ts, tlast, nav, modal, anim, boot, rs, spy>>

DragStart ==
    \E x \in PointerPositions :
        /\ carousel' = dragStart(carousel, x)
        /\ last' = [op |-> "dragStart", arg |-> 0]
        /\ sess' = IF carousel.isDragging
                   THEN NoSession
                   ELSE [origin |-> carousel.currentIndex, downX |-> x,
                         lastX |-> x, clean |-> TRUE]
        /\ UNCHANGED <<innerWidth, resizeTimeout, hovering, ts, tlast, nav, modal, anim, boot, rs, spy>>

DragMove ==
    /\ carousel.isDragging
    /\ \E x \in PointerPositions :
        /\ carousel' = dragMove(carousel, x)
        /\ last' = [op |-> "dragMove", arg |-> 0]
        /\ sess' = IF sess.clean THEN [sess EXCEPT !.lastX = x] ELSE sess
        /\ UNCHANGED <<innerWidth, resizeTimeout, hovering, ts, tlast, nav, modal, anim, boot, rs, spy>>

DragEnd ==
    /\ carousel.isDragging
    /\ carousel' = dragEnd(carousel, innerWidth)
    /\ last' = [op |-> "dragEnd", arg |-> 0]
    /\ UNCHANGED <<sess, innerWidth, resizeTimeout, hovering, ts, tlast, nav, modal, anim, boot, rs, spy>>

Resize ==
    \E w \in WindowWidths :
        /\ innerWidth' = w
        /\ resizeTimeout' = TRUE
        /\ last' = [op |-> "resizeEvent", arg |-> 0]
        /\ sess' = Undisturbed
        /\ UNCHANGED <<carousel, hovering, ts, tlast, nav, modal, anim, boot, rs, spy>>

ResizeFire ==
    /\ resizeTimeout
    /\ resizeTimeout' = FALSE
    /\ carousel' = resizeRecompute(carousel, innerWidth)
    /\ last' = [op |-> "resize", arg |-> 0]
    /\ sess' = Disturbed
    /\ UNCHANGED <<innerWidth, hovering, ts, tlast, nav, modal, anim, boot, rs, spy>>

AutoplayTick ==
    /\ carousel.liveIntervals > 0
    /\ carousel' = autoplayTick(carousel, innerWidth)
    /\ last' = [op |-> "tick", arg |-> 0]
    /\ sess' = Disturbed
    /\ UNCHANGED <<innerWidth, resizeTimeout, hovering, ts, tlast, nav, modal, anim, boot, rs, spy>>

MouseEnter ==
    /\ carousel.autoplay
    /\ ~hovering
    /\ hovering' = TRUE
    /\ carousel' = stopAutoplay(carousel)
    /\ last' = [op |-> "mouseenter", arg |-> 0]
    /\ sess' = Undisturbed
    /\ UNCHANGED <<innerWidth, resizeTimeout, ts, tlast, nav, modal, anim, boot, rs, spy>>

MouseLeave ==
    /\ carousel.autoplay
    /\ hovering
    /\ hovering' = FALSE
    /\ carousel' = startAutoplay(carousel)
    /\ last' = [op |-> "mouseleave", arg |-> 0]
    /\ sess' = Undisturbed
    /\ UNCHANGED <<innerWidth, resizeTimeout, ts, tlast, nav, modal, anim, boot, rs, spy>>

CarouselNext ==
    \/ Next_ \/ Prev_ \/ GoToSlide
    \/ DragStart \/ DragMove \/ DragEnd
    \/ Resize \/ ResizeFire

\* the handlers that start, stop or are driven by the autoplay interval,
\* and the buttons
AutoplayNext ==
    \/ Next_ \/ Prev_
    \/ DragStart \/ DragMove \/ DragEnd
    \/ AutoplayTick \/ MouseEnter \/ MouseLeave

(***************************************************************************)
(* The resize listener of init() with its timing.  `rs` holds the timers   *)
(* the listener has set and that are neither cleared nor fired, oldest     *)
(* first, each as the milliseconds it still has to run.  Ghost fields:     *)
(* `sinceEvent` the milliseconds since the last resize event, counted up   *)
(* to twice the delay, `burst` the number of resize events and             *)
(* `recomputes` the number of recomputations since the last recomputation  *)
(* before the burst, each counted up to MaxBurst.                          *)
(***************************************************************************)
\* the amounts by which time advances between two events
TimeSteps == {50, 100}

resizeDelay == 150

MaxBurst == 3

resizeListenerNoClear(timers) == Append(timers, resizeDelay)

\* clearTimeout(resizeTimeout); resizeTimeout = setTimeout(..., 150): the
\* timer set last is cleared when it is still pending
resizeListener(timers) ==
    Append(IF timers = <<>> THEN timers ELSE SubSeq(timers, 1, Len(timers) - 1),
           resizeDelay)

ResizeClockStart ==
    rs = [timers |-> <<>>, sinceEvent |-> 2 * resizeDelay, burst |-> 0,
          recomputes |-> 0]

\* a resize event of the window
TimedResize ==
    /\ Len(rs.timers) < MaxBurst
    /\ \E w \in WindowWidths :
        /\ innerWidth' = w
        /\ resizeTimeout' = TRUE
        /\ rs' = [timers |-> resizeListener(rs.timers), sinceEvent |-> 0,
                  burst |-> IF rs.timers = <<>> THEN 1
                            ELSE Min(MaxBurst, rs.burst + 1),
                  recomputes |-> IF rs.timers = <<>> THEN 0 ELSE rs.recomputes]
        /\ last' = [op |-> "resizeEvent", arg |-> 0]
        /\ sess' = Undisturbed
        /\ UNCHANGED <<carousel, hovering, ts, tlast, nav, modal, anim, boot, spy>>

\* the oldest timer of the resize listener is due and runs
TimedResizeFire ==
    /\ rs.timers # <<>> /\ Head(rs.timers) = 0
    /\ carousel' = resizeRecompute(carousel, innerWidth)
    /\ resizeTimeout' = (Tail(rs.timers) # <<>>)
    /\ rs' = [rs EXCEPT !.timers = Tail(@),
                        !.recomputes = Min(MaxBurst, @ + 1)]
    /\ last' = [op |-> "resize", arg |-> 0]
    /\ sess' = Disturbed
    /\ UNCHANGED <<innerWidth, hovering, ts, tlast, nav, modal, anim, boot, spy>>

\* time passes, but not beyond the moment the next timer is due
ResizeWait ==
    /\ \E d \in TimeSteps :
        /\ rs.timers # <<>> => d <= Head(rs.timers)
        /\ rs' = [rs EXCEPT
                    !.timers = [i \in 1..Len(@) |-> @[i] - d],
                    !.sinceEvent = Min(2 * resizeDelay, @ + d)]
    /\ last' = [op |-> "wait", arg |-> 0]
    /\ sess' = Undisturbed
    /\ UNCHANGED <<carousel, innerWidth, resizeTimeout, hovering, ts, tlast, nav, modal, anim, boot, spy>>

ResizeNext ==
    \/ Next_ \/ Prev_
    \/ TimedResize \/ TimedResizeFire \/ ResizeWait

(***************************************************************************)
(* ThemeSwitcher: methods.  The record holds the instance, the <html>      *)
(* data-theme attribute, the button's aria-label, the localStorage entry   *)
(* under storageKey, the listeners registered and the OS signals.          *)
(* storeMode is "ok", "quota" (setItem throws, getItem works) or "denied"  *)
(* (every access throws); it is a setting of the browser and stays as it   *)
(* is while the page lives.  thrown is an exception in flight, uncaught    *)
(* records that one left a handler.                                        *)
(***************************************************************************)
LIGHT == "light"
DARK == "dark"
Themes == {LIGHT, DARK}
NoValue == "none"
StoreModes == {"ok", "quota", "denied"}

Opposite(theme) == IF theme = LIGHT THEN DARK ELSE LIGHT

getItem(s) ==
    IF s.storeMode = "denied"
    THEN [threw |-> TRUE, val |-> NoValue]
    ELSE [threw |-> FALSE, val |-> s.stored]

setItem(s, theme) ==
    IF s.storeMode = "ok"
    THEN [s EXCEPT !.stored = theme]
    ELSE [s EXCEPT !.thrown = TRUE]

savePreferenceNoCatch(s, theme) == setItem(s, theme)

savePreference(s, theme) ==
    LET r == setItem(s, theme)
    IN  IF r.thrown THEN [r EXCEPT !.thrown = FALSE] ELSE r

loadPreference(s) ==
    LET r == getItem(s)
    IN  IF r.threw THEN [threw |-> FALSE, val |-> NoValue] ELSE r

\* window.matchMedia exists in every browser that loads the page's module
\* script, so the guard on it always passes.
getSystemPreference(s) == IF s.osDark THEN DARK ELSE LIGHT

getCurrentTheme(s) == IF s.dataTheme # NoValue THEN s.dataTheme ELSE LIGHT

labelFor(theme) ==
    IF theme = DARK THEN "Switch to light theme" ELSE "Switch to dark theme"

setThemeNoSave(s, theme) ==
    IF s.thrown THEN s
    ELSE LET valid == IF theme \in Themes THEN theme ELSE LIGHT
             a == [s EXCEPT !.dataTheme = valid]
         IN  IF ~a.button
             THEN [a EXCEPT !.thrown = TRUE]
             ELSE [a EXCEPT !.ariaLabel = labelFor(valid)]

setTheme(s, theme) ==
    IF s.thrown THEN s
    ELSE LET valid == IF theme \in Themes THEN theme ELSE LIGHT
             a == [s EXCEPT !.dataTheme = valid]
         IN  IF ~a.button
             THEN [a EXCEPT !.thrown = TRUE]
             ELSE savePreference([a EXCEPT !.ariaLabel = labelFor(valid)], valid)

osChangeAlways(s, matches) == setTheme(s, IF matches THEN DARK ELSE LIGHT)

\* The listener watchSystemPreference registers on the color-scheme query.
osChangeListener(s, matches) ==
    IF s.thrown THEN s
    ELSE IF loadPreference(s).val = NoValue
    THEN setTheme(s, IF matches THEN DARK ELSE LIGHT)
    ELSE s

watchSystemPreference(s) ==
    IF s.thrown THEN s ELSE [s EXCEPT !.mqListeners = @ + 1]

themeInitSystemFirst(s) ==
    LET a == setTheme(s, getSystemPreference(s))
    IN  IF a.thrown THEN a
        ELSE watchSystemPreference([a EXCEPT !.clickListeners = @ + 1])

themeInit(s) ==
    LET saved == loadPreference(s)
    IN  IF saved.threw THEN [s EXCEPT !.thrown = TRUE]
        ELSE LET initialTheme ==
                     IF saved.val # NoValue THEN saved.val
                     ELSE getSystemPreference(s)
                 a == setTheme(s, initialTheme)
             IN  IF a.thrown THEN a
                 ELSE watchSystemPreference([a EXCEPT !.clickListeners = @ + 1])

animateIcon(s) ==
    IF s.thrown \/ s.reducedMotion THEN s
    ELSE [s EXCEPT !.iconAnimating = TRUE, !.iconTimers = @ + 1]

toggleToDark(s) == animateIcon(setTheme(s, DARK))

toggle(s) ==
    LET currentTheme == getCurrentTheme(s)
        newTheme == IF currentTheme = LIGHT THEN DARK ELSE LIGHT
    IN  animateIcon(setTheme(s, newTheme))

themeConstructor(s) == IF s.button THEN themeInit(s) ELSE s

\* The end of a handler: an exception still in flight leaves it.
Finish(s) == [s EXCEPT !.uncaught = @ \/ s.thrown, !.thrown = FALSE]

RECURSIVE Times(_, _, _)
\* The handlers of n listeners run one after the other; an exception in one
\* is reported by the event loop and does not stop the next.
Times(n, s, which) ==
    IF n = 0 THEN s
    ELSE LET one == IF which = "click" THEN toggle(s)
                    ELSE osChangeListener(s, s.osDark)
         IN  Times(n - 1, Finish(one), which)

(***************************************************************************)
(* ThemeSwitcher: the page before its script runs, the two steps of the    *)
(* entry point (new ThemeSwitcher(), then themeSwitcher.init()) and the    *)
(* events after them.                                                      *)
(***************************************************************************)
\* What a theme handler started from.  run counts the toggle() calls made in
\* a row up to now (at most 2); applied2, stored2 are what the first of two
\* calls started from.
Started(op, run) ==
    [op |-> op, applied |-> ts.dataTheme, stored |-> ts.stored, run |-> run,
     applied2 |-> IF run = 2 THEN tlast.applied ELSE NoValue,
     stored2 |-> IF run = 2 THEN tlast.stored ELSE NoValue]

ThemeStart ==
    /\ \E button \in BOOLEAN, mode \in StoreModes, stored \in Themes \cup {NoValue},
          osDark \in BOOLEAN, reduced \in BOOLEAN :
          /\ mode = "denied" => stored = NoValue
          /\ ts = [phase |-> "loaded", button |-> button, storeMode |-> mode,
                   stored |-> stored, osDark |-> osDark, reducedMotion |-> reduced,
                   dataTheme |-> NoValue, ariaLabel |-> NoValue,
                   clickListeners |-> 0, mqListeners |-> 0,
                   iconAnimating |-> FALSE, iconTimers |-> 0,
                   thrown |-> FALSE, uncaught |-> FALSE,
                   userActed |-> stored # NoValue,
                   explicitPersisted |-> stored # NoValue]
    /\ tlast = [op |-> "none", applied |-> NoValue, stored |-> NoValue, run |-> 0,
                applied2 |-> NoValue, stored2 |-> NoValue]

Construct ==
    /\ ts.phase = "loaded"
    /\ ts' = [Finish(themeConstructor(ts)) EXCEPT !.phase = "constructed"]
    /\ tlast' = Started("init", 0)
    /\ UNCHANGED <<carouselVars, nav, modal, anim, boot, rs, spy>>

InitCall ==
    /\ ts.phase = "constructed"
    /\ ts' = [Finish(themeInit(ts)) EXCEPT !.phase = "ready"]
    /\ tlast' = Started("init", 0)
    /\ UNCHANGED <<carouselVars, nav, modal, anim, boot, rs, spy>>

Toggle ==
    /\ ts.phase = "ready"
    /\ ts.button
    /\ ts.iconTimers < MaxIconTimers
    /\ LET t == toggle(ts)
       IN  ts' = [Finish(t) EXCEPT !.userActed = TRUE,
                                   !.explicitPersisted = @ \/ ts.storeMode = "ok"]
    /\ tlast' = Started("toggle", IF tlast.op = "toggle" THEN 2 ELSE 1)
    /\ UNCHANGED <<carouselVars, nav, modal, anim, boot, rs, spy>>

Click ==
    /\ ts.phase = "ready"
    /\ ts.button
    /\ ts.iconTimers + ts.clickListeners <= MaxIconTimers
    /\ LET t == Times(ts.clickListeners, ts, "click")
       IN  ts' = [t EXCEPT !.userActed = TRUE,
                           !.explicitPersisted = @ \/ ts.storeMode = "ok"]
    /\ tlast' = Started("click", 0)
    /\ UNCHANGED <<carouselVars, nav, modal, anim, boot, rs, spy>>

OSChange ==
    /\ ts.phase = "ready"
    /\ LET flipped == [ts EXCEPT !.osDark = ~ts.osDark]
       IN  ts' = Times(ts.mqListeners, flipped, "change")
    /\ tlast' = Started("osChange", 0)
    /\ UNCHANGED <<carouselVars, nav, modal, anim, boot, rs, spy>>

IconTimer ==
    /\ ts.phase = "ready"
    /\ ts.iconTimers > 0
    /\ ts' = [ts EXCEPT !.iconTimers = @ - 1, !.iconAnimating = FALSE]
    /\ tlast' = Started("iconTimer", 0)
    /\ UNCHANGED <<carouselVars, nav, modal, anim, boot, rs, spy>>

ThemeNext ==
    \/ Construct \/ InitCall
    \/ Toggle \/ Click \/ OSChange \/ IconTimer

(***************************************************************************)
(* Navigation (src/src/js/modules/navigation.js).  The record holds the    *)
(* three anchors the constructor looks up, the instance field isOpen, the  *)
(* attributes and inline styles the methods write, and the hide timers     *)
(* that close() has scheduled and that have not fired yet, oldest first,   *)
(* each as the milliseconds it still has to run.  `uncaught` is set once   *)
(* an exception has left a listener.  Ghost fields: `op` the listener that *)
(* ran last, `wasOpen` the value of isOpen it started from, `hid` whether  *)
(* it took the menu out of the layout, and `sinceClose` the milliseconds   *)
(* since the most recent call of close(), counted up to hideDelay.         *)
(***************************************************************************)
hideDelay == 250

MaxHideTimers == 3

\* open(): the write to this.header.style throws when there is no .header
navOpen(s) ==
    LET a == [s EXCEPT !.isOpen = TRUE, !.openClass = TRUE,
                       !.display = "block", !.ariaExpanded = "true"]
    IN IF ~a.header THEN [a EXCEPT !.thrown = TRUE]
       ELSE [a EXCEPT !.border = "none", !.overflow = "hidden"]

navCloseKeepsAria(s) ==
    LET a == [s EXCEPT !.isOpen = FALSE, !.openClass = FALSE, !.sinceClose = 0]
    IN IF ~a.header THEN [a EXCEPT !.thrown = TRUE]
       ELSE [a EXCEPT !.border = "solid", !.overflow = "",
                      !.timers = Append(@, hideDelay)]

\* close(): schedules a hide timer on every call and clears none
navClose(s) ==
    LET a == [s EXCEPT !.isOpen = FALSE, !.openClass = FALSE,
                       !.ariaExpanded = "false", !.sinceClose = 0]
    IN IF ~a.header THEN [a EXCEPT !.thrown = TRUE]
       ELSE [a EXCEPT !.border = "solid", !.overflow = "",
                      !.timers = Append(@, hideDelay)]

navToggle(s) == IF s.isOpen THEN navClose(s) ELSE navOpen(s)

navHideUnchecked(s) == [s EXCEPT !.display = "none"]

\* the callback of a hide timer
navHide(s) == IF ~s.isOpen THEN [s EXCEPT !.display = "none"] ELSE s

\* init(): the listeners are registered
navInit(s) == [s EXCEPT !.listening = TRUE]

navConstructor(menuToggle, mobileNav, header) ==
    LET o == [menuToggle |-> menuToggle, mobileNav |-> mobileNav,
              header |-> header, listening |-> FALSE, isOpen |-> FALSE,
              openClass |-> FALSE, display |-> "css", ariaExpanded |-> "unset",
              border |-> "css", overflow |-> "", timers |-> <<>>,
              thrown |-> FALSE, uncaught |-> FALSE,
              op |-> "new", wasOpen |-> FALSE, hid |-> FALSE,
              sinceClose |-> hideDelay]
    IN IF menuToggle /\ mobileNav THEN navInit(o) ELSE o

\* a listener has returned or thrown: an exception that left it is reported
navListener(op, from, s) ==
    [s EXCEPT !.op = op, !.wasOpen = from.isOpen,
              !.hid = (from.display # "none" /\ s.display = "none"),
              !.uncaught = @ \/ s.thrown, !.thrown = FALSE]

NavStart ==
    \E header \in BOOLEAN : nav = navConstructor(TRUE, TRUE, header)

NavIdle == UNCHANGED <<carouselVars, themeVars, modal, anim, boot, rs, spy>>

\* a click on the menu toggle: its listener, then the document's, which
\* finds the target inside the toggle
ToggleClick ==
    /\ nav.listening /\ Len(nav.timers) < MaxHideTimers
    /\ nav' = navListener("toggleClick", nav, navToggle(nav))
    /\ NavIdle

\* a click on a link of the mobile menu, open or still fading out: the
\* link's listener closes, the smooth-scroll listener and the document's
\* then find the menu closed
MobileLinkClick ==
    /\ nav.listening /\ Len(nav.timers) < MaxHideTimers
    /\ nav.display = "block"
    /\ nav' = navListener("linkClick", nav, navClose(nav))
    /\ NavIdle

\* a click on the page outside the mobile menu and outside the toggle
OutsideClick ==
    /\ nav.listening /\ Len(nav.timers) < MaxHideTimers
    /\ nav' = navListener("outsideClick", nav,
                          IF nav.isOpen THEN navClose(nav) ELSE nav)
    /\ NavIdle

\* the Escape key anywhere in the document
NavEscape ==
    /\ nav.listening /\ Len(nav.timers) < MaxHideTimers
    /\ nav' = navListener("escape", nav,
                          IF nav.isOpen THEN navClose(nav) ELSE nav)
    /\ NavIdle

\* the oldest hide timer is due and runs
HideTimer ==
    /\ nav.timers # <<>> /\ Head(nav.timers) = 0
    /\ nav' = navListener("hideTimer", nav,
                          navHide([nav EXCEPT !.timers = Tail(@)]))
    /\ NavIdle

\* time passes, but not beyond the moment the next timer is due
NavTick ==
    /\ \E d \in TimeSteps :
        /\ nav.timers # <<>> => d <= Head(nav.timers)
        /\ nav' = [nav EXCEPT
                     !.timers = [i \in 1..Len(@) |-> @[i] - d],
                     !.sinceClose = Min(hideDelay, @ + d),
                     !.op = "tick", !.wasOpen = nav.isOpen, !.hid = FALSE]
    /\ NavIdle

NavNext ==
    \/ ToggleClick
    \/ MobileLinkClick
    \/ OutsideClick
    \/ NavEscape
    \/ HideTimer
    \/ NavTick

(***************************************************************************)
(* Scroll spy (src/src/js/modules/navigation.js, setupScrollSpy).  The     *)
(* sections that the navigation links point to are Sections, numbered in   *)
(* document order; the mobile links and then the desktop links name them   *)
(* in that order.  `spy` holds offsetTop and offsetHeight of each section, *)
(* window.pageYOffset, the `ticking` flag of the throttle and the set of   *)
(* links, by their position in allNavLinks, that carry an active class.    *)
(* Ghost field: `op` the handler that ran last.                            *)
(***************************************************************************)
Sections == 1..3

NoSection == 0

spyOffset == 100

OffsetTops == {0, 100, 200}

OffsetHeights == {100, 200}

ScrollYs == {0, 100, 200}

\* allNavLinks: the mobile links, then the desktop links
allNavLinks == <<1, 2, 3, 1, 2, 3>>

\* the sections array built by setupScrollSpy(): one entry per link
spySections == allNavLinks

\* the forEach over the sections: every match overwrites currentSection
RECURSIVE currentSection(_, _, _, _)
currentSection(s, scrollPosition, i, current) ==
    IF i > Len(spySections) THEN current
    ELSE LET id == spySections[i]
             sectionTop == s.offsetTop[id]
             sectionBottom == sectionTop + s.offsetHeight[id]
         IN  currentSection(s, scrollPosition, i + 1,
                 IF scrollPosition >= sectionTop /\ scrollPosition < sectionBottom
                 THEN id ELSE current)

updateActiveLink(s) ==
    LET current == currentSection(s, s.pageYOffset + spyOffset, 1, NoSection)
    IN  [s EXCEPT !.active = {i \in 1..Len(allNavLinks) : allNavLinks[i] = current},
                  !.ticking = FALSE,
                  !.op = "update"]

\* the scroll listener: one animation frame is requested per frame
scrollListener(s) == [s EXCEPT !.ticking = TRUE, !.op = "scroll"]

\* the state after setupScrollSpy(), which ends with updateActiveLink()
SpyStart ==
    \E tops \in [Sections -> OffsetTops], heights \in [Sections -> OffsetHeights],
       y \in ScrollYs :
        /\ \A a, b \in Sections : a < b => tops[a] <= tops[b]
        /\ spy = [updateActiveLink([offsetTop |-> tops, offsetHeight |-> heights,
                                   pageYOffset |-> y, ticking |-> FALSE,
                                   active |-> {}, op |-> "init"])
                  EXCEPT !.op = "init"]

SpyIdle ==
    UNCHANGED <<carouselVars, ts, tlast, nav, modal, anim, boot, rs>>

\* the window scrolls to y and the scroll event is dispatched
ScrollEvent ==
    /\ \E y \in ScrollYs :
        /\ y # spy.pageYOffset
        /\ spy' = scrollListener([spy EXCEPT !.pageYOffset = y])
    /\ SpyIdle

\* the animation frame requested by the scroll listener
SpyAnimationFrame ==
    /\ spy.ticking
    /\ spy' = updateActiveLink(spy)
    /\ SpyIdle

SpyNext == ScrollEvent \/ SpyAnimationFrame

(***************************************************************************)
(* Modal (src/src/js/modules/theme-switcher.js, class Modal).  Elements    *)
(* that can hold the keyboard focus are integers: the focusable            *)
(* descendants of the dialog are 1..focusables in document order, the      *)
(* close button being the first, and the focusable elements of the page    *)
(* behind the dialog are PageElements.  element.focus() always lands.  The *)
(* record holds the anchors, the instance fields, the class and attribute  *)
(* of the backdrop, the scroll-lock class of the body, the pioneer whose   *)
(* record the content slot shows, the number of keydown listeners          *)
(* setFocusTrap() has added to the dialog and the number of focus timers   *)
(* that open() has scheduled and that have not fired yet.  Ghost fields:   *)
(* `op` and `arg` the handler that ran last and its argument, `wasOpen`    *)
(* and `from` the isOpen and the focus it started from, `openedFrom` the   *)
(* focus at the last open() of a closed modal and `reopened` whether       *)
(* open() has succeeded on the open modal since.                           *)
(***************************************************************************)
NoElement == 0

closeButton == 1

MaxFocusable == 3

MaxTraps == 3

PageElements == {-1, -2}

\* three of the six entries of pioneersData
PioneerIds == {"katherine-johnson", "claude-shannon", "donald-knuth"}

UnknownId == "unknown"

NoContent == "markup"

modalUpdateContentOnce(s, id) ==
    IF s.shown = NoContent THEN [s EXCEPT !.shown = id] ELSE s

modalUpdateContent(s, id) == [s EXCEPT !.shown = id]

\* setFocusTrap(): every call adds one more keydown listener to the dialog
setFocusTrap(s) ==
    IF ~s.dialog THEN [s EXCEPT !.thrown = TRUE]
    ELSE IF s.focusables > 0
         THEN [s EXCEPT !.first = 1, !.last = s.focusables, !.traps = @ + 1]
         ELSE s

modalOpenUnchecked(s, id) ==
    LET a == [modalUpdateContent(s, id) EXCEPT !.prev = s.focus]
        b == setFocusTrap([a EXCEPT !.active = TRUE, !.ariaHidden = "false",
                                    !.locked = TRUE])
    IN IF ~a.backdrop THEN [a EXCEPT !.thrown = TRUE]
       ELSE IF b.thrown THEN b
       ELSE [b EXCEPT !.focusTimers = @ + 1, !.isOpen = TRUE]

modalOpen(s, id) ==
    IF id \notin PioneerIds THEN s
    ELSE LET a == [modalUpdateContent(s, id) EXCEPT !.prev = s.focus]
             b == setFocusTrap([a EXCEPT !.active = TRUE,
                                         !.ariaHidden = "false",
                                         !.locked = TRUE])
         IN IF ~a.backdrop THEN [a EXCEPT !.thrown = TRUE]
            ELSE IF b.thrown THEN b
            ELSE [b EXCEPT !.focusTimers = @ + 1, !.isOpen = TRUE]

modalCloseNoRestore(s) ==
    IF ~s.backdrop THEN [s EXCEPT !.thrown = TRUE]
    ELSE [s EXCEPT !.active = FALSE, !.ariaHidden = "true", !.locked = FALSE,
                   !.isOpen = FALSE]

modalCloseKeepsLock(s) ==
    IF ~s.backdrop THEN [s EXCEPT !.thrown = TRUE]
    ELSE [s EXCEPT !.active = FALSE, !.ariaHidden = "true",
                   !.focus = IF s.prev # NoElement THEN s.prev ELSE @,
                   !.isOpen = FALSE]

modalClose(s) ==
    IF ~s.backdrop THEN [s EXCEPT !.thrown = TRUE]
    ELSE [s EXCEPT !.active = FALSE, !.ariaHidden = "true", !.locked = FALSE,
                   !.focus = IF s.prev # NoElement THEN s.prev ELSE @,
                   !.isOpen = FALSE]

trapHandlerShiftOnly(s, shift) ==
    IF shift /\ s.focus = s.first
    THEN [s EXCEPT !.prevented = TRUE, !.focus = s.last]
    ELSE s

\* one keydown listener of the dialog receiving a Tab key
trapHandler(s, shift) ==
    IF shift
    THEN IF s.focus = s.first
         THEN [s EXCEPT !.prevented = TRUE, !.focus = s.last]
         ELSE s
    ELSE IF s.focus = s.last
         THEN [s EXCEPT !.prevented = TRUE, !.focus = s.first]
         ELSE s

RECURSIVE trapListeners(_, _, _)
\* the n keydown listeners of the dialog, in the order they were added
trapListeners(n, s, shift) ==
    IF n = 0 THEN s ELSE trapListeners(n - 1, trapHandler(s, shift), shift)

\* where the browser takes the focus on an unprevented Tab inside the dialog
TabTargets(s, shift) ==
    IF shift
    THEN IF s.focus > 1 THEN {s.focus - 1} ELSE PageElements
    ELSE IF s.focus < s.focusables THEN {s.focus + 1} ELSE PageElements

modalInit(s) == IF ~s.backdrop THEN s ELSE [s EXCEPT !.listening = TRUE]

modalConstructor(backdrop, dialog, focusables, focus) ==
    [backdrop |-> backdrop, dialog |-> dialog, focusables |-> focusables,
     listening |-> FALSE, isOpen |-> FALSE, shown |-> NoContent,
     active |-> FALSE, ariaHidden |-> "markup", locked |-> FALSE,
     first |-> NoElement, last |-> NoElement, prev |-> NoElement,
     focus |-> focus, traps |-> 0, focusTimers |-> 0,
     prevented |-> FALSE, thrown |-> FALSE, uncaught |-> FALSE,
     op |-> "new", arg |-> "", wasOpen |-> FALSE, from |-> focus,
     openedFrom |-> NoElement, reopened |-> FALSE]

\* a handler has returned or thrown
modalListener(op, arg, from, s) ==
    LET known == op = "open" /\ ~s.thrown
    IN [s EXCEPT !.op = op, !.arg = arg, !.wasOpen = from.isOpen,
                 !.from = from.focus, !.prevented = FALSE,
                 !.openedFrom = IF known /\ ~from.isOpen THEN from.focus ELSE @,
                 !.reopened = IF known THEN from.isOpen ELSE @,
                 !.uncaught = @ \/ s.thrown, !.thrown = FALSE]

ModalStart ==
    \E k \in 1..MaxFocusable, e \in PageElements :
        modal = modalInit(modalConstructor(TRUE, TRUE, k, e))

ModalIdle == UNCHANGED <<carouselVars, themeVars, nav, anim, boot, rs, spy>>

\* open(id), from the click listener of a card or called directly
OpenCall ==
    /\ modal.listening /\ modal.traps < MaxTraps
    /\ \E id \in PioneerIds \cup {UnknownId} :
        modal' = modalListener(IF id \in PioneerIds THEN "open"
                                                    ELSE "openUnknown",
                               id, modal, modalOpen(modal, id))
    /\ ModalIdle

\* close(), from the click listener of the close button or of the backdrop
CloseCall ==
    /\ modal.listening
    /\ modal' = modalListener("close", "", modal, modalClose(modal))
    /\ ModalIdle

\* the Escape key anywhere in the document
ModalEscape ==
    /\ modal.listening
    /\ modal' = modalListener("escape", "", modal,
                              IF modal.isOpen THEN modalClose(modal) ELSE modal)
    /\ ModalIdle

\* a focus timer of open() is due: this.closeButton?.focus().  The focus
\* lands on the button of the shown dialog; whether the button of a hidden
\* dialog can take it is left to the stylesheet
FocusTimer ==
    /\ modal.focusTimers > 0
    /\ \E lands \in IF modal.active THEN {TRUE} ELSE BOOLEAN :
        modal' = modalListener("focusTimer", "", modal,
                   [modal EXCEPT !.focusTimers = @ - 1,
                                 !.focus = IF lands THEN closeButton ELSE @])
    /\ ModalIdle

\* Tab or Shift+Tab pressed with the focus inside the dialog: the keydown
\* listeners of the dialog run, then the browser moves the focus unless
\* one of them has prevented it
TabKey ==
    /\ modal.focus \in 1..modal.focusables
    /\ \E shift \in BOOLEAN :
        LET a == trapListeners(modal.traps, modal, shift)
        IN \E t \in IF a.prevented THEN {a.focus} ELSE TabTargets(a, shift) :
            modal' = modalListener(IF shift THEN "shiftTab" ELSE "tab", "",
                                   modal, [a EXCEPT !.focus = t])
    /\ ModalIdle

\* the user moves the focus to another element of the page
FocusMove ==
    /\ ~modal.active \/ modal.focus \in PageElements
    /\ \E e \in PageElements :
        modal' = modalListener("focusMove", "", modal, [modal EXCEPT !.focus = e])
    /\ ModalIdle

ModalNext ==
    \/ OpenCall
    \/ CloseCall
    \/ ModalEscape
    \/ FocusTimer
    \/ TabKey
    \/ FocusMove

(***************************************************************************)
(* AnimationController (src/src/js/modules/navigation.js, class            *)
(* AnimationController).  The page holds seven elements: a [data-animate]  *)
(* section containing a .timeline with two .timeline__item children, a     *)
(* [data-animate] .carousel__track holding one clickable pioneer card      *)
(* (.pioneer-card.pioneer-card--clickable, not featured, so that no        *)
(* content selector matches it), a .section__title of the content and a    *)
(* .section__title inside the .header.  The record holds the OS signal,    *)
(* the instance fields, the classes and data attributes of the elements,   *)
(* what each IntersectionObserver observes (observers are numbered in the  *)
(* order init() creates them, 0 standing for null), the number of change   *)
(* listeners registered on the media query, and the timer callbacks that   *)
(* are pending, each with the milliseconds it still has to run.  Ghost     *)
(* fields: `op` the handler that ran last, `applied` the number of times   *)
(* an animation class was added to each element, `intersected` the         *)
(* targets whose intersection was handled, and `since` the milliseconds    *)
(* since the intersection of each stagger container was handled, -1        *)
(* before it and counted up to twice the stagger delay.                    *)
(***************************************************************************)
MaxListeners == 4

staggerDelay == 150

animationDuration == 1000

Elements == {"timeline", "track", "headerTitle", "title", "item1", "item2", "card"}

\* the elements in the order setupAnimatableElements() reaches them:
\* selector by selector, in document order within a selector
SetupOrder == <<"timeline", "track", "headerTitle", "title", "item1", "item2">>

\* the elements the content selectors of showAllElements() match
Animatable == {SetupOrder[i] : i \in 1..Len(SetupOrder)}

\* the clickable card, and the title inside the header
shouldSkipElement(e) == e \in {"card", "headerTitle"}

StaggerContainers == {"timeline", "track"}

isStaggeredElement(e) == e \in StaggerContainers

getStaggeredItems(e) ==
    CASE e = "timeline" -> <<"item1", "item2">>
      [] e = "track" -> <<"card">>
      [] OTHER -> <<>>

getAnimationType(e) ==
    CASE e \in {"title", "headerTitle", "card"} -> "slideUp"
      [] e \in {"item1", "item2"} -> "slideLeft"
      [] OTHER -> "fadeIn"

\* animationClasses[type] || animationClasses.fadeIn
animationClass(type) ==
    CASE type = "slideUp" -> "animate-slide-up"
      [] type = "slideLeft" -> "animate-slide-left"
      [] type = "stagger" -> "animate-stagger"
      [] OTHER -> "animate-fade-in"

observe(s, e) == [s EXCEPT !.observed = @ \cup {<<s.observer, e>>}]

setupStaggeredGroup(s, container) ==
    LET items == getStaggeredItems(container)
        set == {items[i] : i \in 1..Len(items)}
    IN IF Len(items) = 0 THEN s
       ELSE observe([s EXCEPT
                !.hidden = @ \cup set,
                !.animationType = [e \in Elements |->
                    IF e \in set THEN "stagger"
                    ELSE IF e = container THEN "stagger-container"
                    ELSE @[e]]], container)

setupElement(s, e) ==
    IF e \in s.setup THEN s
    ELSE IF shouldSkipElement(e) THEN [s EXCEPT !.setup = @ \cup {e}]
    ELSE LET a == [s EXCEPT !.hidden = @ \cup {e}]
             b == IF isStaggeredElement(e) THEN setupStaggeredGroup(a, e)
                  ELSE observe([a EXCEPT
                           !.animationType[e] = getAnimationType(e)], e)
         IN [b EXCEPT !.setup = @ \cup {e}]

RECURSIVE setupAnimatableElements(_, _)
\* setupElement on the elements from position i of SetupOrder onwards
setupAnimatableElements(s, i) ==
    IF i > Len(SetupOrder) THEN s
    ELSE setupAnimatableElements(setupElement(s, SetupOrder[i]), i + 1)

showAllElements(s) ==
    [s EXCEPT !.hidden = {}, !.visible = @ \cup s.hidden \cup Animatable]

destroy(s) ==
    [s EXCEPT !.observed = IF s.observer # 0
                           THEN {p \in @ : p[1] # s.observer} ELSE @,
              !.observer = 0,
              !.animatedElements = {}]

watchReducedMotionPreference(s) == [s EXCEPT !.listeners = @ + 1]

animInitAlways(s) ==
    watchReducedMotionPreference(setupAnimatableElements(
        [s EXCEPT !.observer = s.created + 1, !.created = @ + 1], 1))

\* init(): under reduced motion it returns before the change listener is
\* registered
animInit(s) ==
    IF s.prefersReducedMotion THEN showAllElements(s)
    ELSE watchReducedMotionPreference(setupAnimatableElements(
             [s EXCEPT !.observer = s.created + 1, !.created = @ + 1], 1))

handleChange(s, matches) ==
    LET a == [s EXCEPT !.prefersReducedMotion = matches]
    IN IF matches THEN showAllElements(destroy(a)) ELSE animInit(a)

RECURSIVE changeListeners(_, _, _)
\* the n change listeners registered when the event is dispatched
changeListeners(n, s, matches) ==
    IF n = 0 THEN s
    ELSE changeListeners(n - 1, handleChange(s, matches), matches)

animateSingleElement(s, e, type) ==
    [s EXCEPT !.hidden = @ \ {e},
              !.classes = @ \cup {<<e, animationClass(type)>>},
              !.applied[e] = @ + 1,
              !.timers = @ \cup {[kind |-> "cleanup", el |-> e,
                                  class |-> animationClass(type),
                                  left |-> animationDuration]}]

\* one timer per item, index * staggerDelay after the call
animateStaggeredGroup(s, container) ==
    LET items == getStaggeredItems(container)
    IN [s EXCEPT !.since[container] = 0,
                 !.timers = @ \cup
            {[kind |-> "stagger", el |-> items[i],
              class |-> animationClass("slideUp"),
              left |-> (i - 1) * staggerDelay] : i \in 1..Len(items)}]

animateElement(s, e) ==
    IF s.animationType[e] = "stagger-container"
    THEN animateStaggeredGroup(s, e)
    ELSE animateSingleElement(s, e, s.animationType[e])

\* handleIntersection for one intersecting entry delivered by observer o
handleIntersection(s, o, e) ==
    IF e \in s.animatedElements THEN s
    ELSE LET a == [animateElement(s, e) EXCEPT !.animatedElements = @ \cup {e},
                                               !.intersected = @ \cup {e}]
         IN [a EXCEPT !.observed = @ \ {<<a.observer, e>>}]

\* the callback of a stagger timer
staggerCallback(s, t) ==
    IF t.el \in s.animatedElements THEN s
    ELSE [s EXCEPT !.hidden = @ \ {t.el},
                   !.classes = @ \cup {<<t.el, t.class>>},
                   !.applied[t.el] = @ + 1,
                   !.animatedElements = @ \cup {t.el},
                   !.timers = @ \cup {[kind |-> "cleanup", el |-> t.el,
                                       class |-> t.class,
                                       left |-> animationDuration]}]

\* the callback of a cleanup timer
cleanupCallback(s, t) ==
    [s EXCEPT !.classes = @ \ {<<t.el, t.class>>},
              !.visible = @ \cup {t.el}]

animConstructor(osReduce) ==
    [osReduce |-> osReduce, prefersReducedMotion |-> osReduce,
     observer |-> 0, created |-> 0, observed |-> {},
     animatedElements |-> {}, listeners |-> 0,
     hidden |-> {}, visible |-> {}, classes |-> {}, setup |-> {},
     animationType |-> [e \in Elements |-> "none"],
     timers |-> {}, op |-> "new",
     applied |-> [e \in Elements |-> 0], intersected |-> {},
     since |-> [c \in StaggerContainers |-> -1]]

AnimStart ==
    \E osReduce \in BOOLEAN :
        anim = [animInit(animConstructor(osReduce)) EXCEPT !.op = "init"]

AnimIdle == UNCHANGED <<carouselVars, themeVars, nav, modal, boot, rs, spy>>

\* the OS preference changes and the media query dispatches its event
ReducedChange ==
    /\ anim.osReduce => 2 * anim.listeners <= MaxListeners
    /\ anim' = [changeListeners(anim.listeners,
                    [anim EXCEPT !.osReduce = ~@], ~anim.osReduce)
                EXCEPT !.op = "change"]
    /\ AnimIdle

\* an observed element enters the viewport
Intersect ==
    /\ \E p \in anim.observed :
        anim' = [handleIntersection(anim, p[1], p[2]) EXCEPT !.op = "intersect"]
    /\ AnimIdle

\* the milliseconds until the next timer is due
nextDue(timers) == CHOOSE d \in {t.left : t \in timers} : \A t \in timers : d <= t.left

\* time passes until the next timer is due
AnimWait ==
    /\ anim.timers # {} /\ nextDue(anim.timers) > 0
    /\ LET d == nextDue(anim.timers)
       IN anim' = [anim EXCEPT
               !.timers = {[t EXCEPT !.left = @ - d] : t \in @},
               !.since = [c \in StaggerContainers |->
                            IF @[c] < 0 THEN @[c]
                            ELSE Min(2 * staggerDelay, @[c] + d)],
               !.op = "wait"]
    /\ AnimIdle

StaggerTimer ==
    /\ \E t \in {u \in anim.timers : u.kind = "stagger" /\ u.left = 0} :
        anim' = [staggerCallback([anim EXCEPT !.timers = @ \ {t}], t)
                 EXCEPT !.op = "staggerTimer"]
    /\ AnimIdle

CleanupTimer ==
    /\ \E t \in {u \in anim.timers : u.kind = "cleanup" /\ u.left = 0} :
        anim' = [cleanupCallback([anim EXCEPT !.timers = @ \ {t}], t)
                 EXCEPT !.op = "cleanupTimer"]
    /\ AnimIdle

AnimNext ==
    \/ ReducedChange
    \/ Intersect
    \/ AnimWait
    \/ StaggerTimer
    \/ CleanupTimer

(***************************************************************************)
(* init() of the AnimationController call by call: the state after the     *)
(* observer was created, then one setupElement() call per step in the      *)
(* order of setupAnimatableElements(), the last of them followed by        *)
(* watchReducedMotionPreference().  Events are handled once init() has     *)
(* returned.                                                               *)
(***************************************************************************)
SetupBegin ==
    anim = [animConstructor(FALSE) EXCEPT !.observer = 1, !.created = 1,
                                          !.op = "observer"]

\* the position in SetupOrder of the next element to set up, 0 when
\* setupAnimatableElements() has reached them all
nextToSetup(s) ==
    LET left == {i \in 1..Len(SetupOrder) : SetupOrder[i] \notin s.setup}
    IN IF left = {} THEN 0 ELSE CHOOSE i \in left : \A j \in left : i <= j

SetupDone == nextToSetup(anim) = 0

SetupStep ==
    /\ ~SetupDone
    /\ LET a == setupElement(anim, SetupOrder[nextToSetup(anim)])
       IN anim' = [(IF nextToSetup(a) = 0
                    THEN watchReducedMotionPreference(a) ELSE a)
                   EXCEPT !.op = "setupElement"]
    /\ AnimIdle

AfterSetup == SetupDone /\ AnimNext

SetupNext == SetupStep \/ AfterSetup

(***************************************************************************)
(* The entry point (src/unnamed/part_001): init() builds the components    *)
(* one after the other; an exception that leaves a constructor or an       *)
(* init() call leaves init() too, and the statements after it do not run.  *)
(* `boot` holds the anchors the page offers (the theme control is          *)
(* ts.button), the statement init() has reached and the two carousels it   *)
(* has built.  A carousel container is described by whether it is in the   *)
(* page, whether it holds a .carousel__viewport and a .carousel__track,    *)
(* and how many .carousel__slide elements it holds.                        *)
(***************************************************************************)
NoContainer == [present |-> FALSE, viewport |-> FALSE, track |-> FALSE, slides |-> 0]

ContainerShapes ==
    {NoContainer} \cup
    [present : {TRUE}, viewport : BOOLEAN, track : BOOLEAN, slides : {0, 2}]

NotBuilt == [built |-> FALSE]

\* new Carousel(element, options): the constructor and, behind its guard,
\* init() up to the statement that throws when there is no viewport
carouselNew(shape, ctype, infinite, autoplay, width) ==
    LET o == carouselConstructor(shape.slides, ctype, infinite, autoplay)
    IN IF ~(shape.track /\ shape.slides > 0)
       THEN [built |-> TRUE, obj |-> o, listeners |-> FALSE,
             resizeListener |-> FALSE, thrown |-> FALSE]
       ELSE IF ~shape.viewport
       THEN [built |-> TRUE, obj |-> updateSlidesToShow(o, width),
             listeners |-> TRUE, resizeListener |-> FALSE, thrown |-> TRUE]
       ELSE [built |-> TRUE, obj |-> carouselInit(o, width),
             listeners |-> TRUE, resizeListener |-> TRUE, thrown |-> FALSE]

BootStart ==
    /\ innerWidth \in WindowWidths
    /\ \E menuToggle \in BOOLEAN, mobileNav \in BOOLEAN, header \in BOOLEAN,
          backdrop \in BOOLEAN, featured \in ContainerShapes,
          more \in ContainerShapes :
          boot = [pc |-> "theme", menuToggle |-> menuToggle,
                  mobileNav |-> mobileNav, header |-> header,
                  backdrop |-> backdrop,
                  containers |-> [t \in CarouselTypes |->
                      IF t = "featured" THEN featured ELSE more],
                  carousels |-> [t \in CarouselTypes |-> NotBuilt]]

BootIdle ==
    UNCHANGED <<carousel, resizeTimeout, hovering, last, sess, innerWidth, themeVars, rs, spy>>

\* new ThemeSwitcher() and themeSwitcher.init() have run and returned
BootThemeDone ==
    /\ boot.pc = "theme" /\ ts.phase = "ready" /\ ~ts.uncaught
    /\ boot' = [boot EXCEPT !.pc = "navigation"]
    /\ UNCHANGED <<nav, modal, anim>>
    /\ BootIdle

\* themeSwitcher.init() has thrown: init() of the entry point is left
BootThemeThrew ==
    /\ boot.pc = "theme" /\ ts.phase = "ready" /\ ts.uncaught
    /\ boot' = [boot EXCEPT !.pc = "crashed"]
    /\ UNCHANGED <<nav, modal, anim>>
    /\ BootIdle

\* new Navigation()
BootNavigation ==
    /\ boot.pc = "navigation"
    /\ nav' = navConstructor(boot.menuToggle, boot.mobileNav, boot.header)
    /\ boot' = [boot EXCEPT !.pc = "modal"]
    /\ UNCHANGED <<modal, anim>>
    /\ BootIdle

\* new Modal(); modal.init()
BootModal ==
    /\ boot.pc = "modal"
    /\ \E k \in 1..MaxFocusable, e \in PageElements :
        modal' = modalInit(modalConstructor(boot.backdrop, boot.backdrop, k, e))
    /\ boot' = [boot EXCEPT !.pc = "animation"]
    /\ UNCHANGED <<nav, anim>>
    /\ BootIdle

\* new AnimationController(); animationController.init()
BootAnimation ==
    /\ boot.pc = "animation"
    /\ anim' = [animInit(animConstructor(ts.reducedMotion)) EXCEPT !.op = "init"]
    /\ boot' = [boot EXCEPT !.pc = "featured"]
    /\ UNCHANGED <<nav, modal>>
    /\ BootIdle

\* one of the two carousel blocks: the container is looked up and, when it
\* is in the page, a Carousel is constructed on it
bootCarousel(b, t, then, width) ==
    IF ~b.containers[t].present THEN [b EXCEPT !.pc = then]
    ELSE LET c == carouselNew(b.containers[t], t, FALSE, FALSE, width)
         IN [b EXCEPT !.carousels[t] = c,
                      !.pc = IF c.thrown THEN "crashed" ELSE then]

BootFeatured ==
    /\ boot.pc = "featured"
    /\ boot' = bootCarousel(boot, "featured", "more-pioneers", innerWidth)
    /\ UNCHANGED <<nav, modal, anim>>
    /\ BootIdle

BootMorePioneers ==
    /\ boot.pc = "more-pioneers"
    /\ boot' = bootCarousel(boot, "more-pioneers", "done", innerWidth)
    /\ UNCHANGED <<nav, modal, anim>>
    /\ BootIdle

BootNext ==
    \/ Construct
    \/ InitCall
    \/ BootThemeDone
    \/ BootThemeThrew
    \/ BootNavigation
    \/ BootModal
    \/ BootAnimation
    \/ BootFeatured
    \/ BootMorePioneers

(***************************************************************************)
(* Specifications: one component runs and the others are parked, or the   *)
(* entry point builds them all.                                            *)
(***************************************************************************)
ThemeParked == ts = [phase |-> "parked"] /\ tlast = [op |-> "none"]

NavParked == nav = [phase |-> "parked"]

ModalParked == modal = [phase |-> "parked"]

AnimParked == anim = [phase |-> "parked"]

BootParked == boot = [phase |-> "parked"]

ResizeClockParked == rs = [phase |-> "parked"]

SpyParked == spy = [phase |-> "parked"]

CarouselParked ==
    /\ carousel = [phase |-> "parked"]
    /\ innerWidth = 0 /\ resizeTimeout = FALSE /\ hovering = FALSE
    /\ last = [op |-> "none"] /\ sess = NoSession

InitCarousel ==
    /\ CarouselStart({FALSE}) /\ ThemeParked
    /\ NavParked /\ ModalParked /\ AnimParked /\ BootParked
    /\ ResizeClockParked /\ SpyParked

InitTheme ==
    /\ ThemeStart /\ CarouselParked
    /\ NavParked /\ ModalParked /\ AnimParked /\ BootParked
    /\ ResizeClockParked /\ SpyParked

SpecCarousel == InitCarousel /\ [][CarouselNext]_vars

\* a carousel constructed with the autoplay option on or off
InitAutoplay ==
    /\ CarouselStart(BOOLEAN) /\ ThemeParked
    /\ NavParked /\ ModalParked /\ AnimParked /\ BootParked
    /\ ResizeClockParked /\ SpyParked

SpecAutoplay == InitAutoplay /\ [][AutoplayNext]_vars

InitResize ==
    /\ CarouselStart({FALSE}) /\ ResizeClockStart /\ ThemeParked
    /\ NavParked /\ ModalParked /\ AnimParked /\ BootParked /\ SpyParked

SpecResize == InitResize /\ [][ResizeNext]_vars

SpecTheme == InitTheme /\ [][ThemeNext]_vars

InitNav ==
    /\ NavStart /\ CarouselParked /\ ThemeParked
    /\ ModalParked /\ AnimParked /\ BootParked
    /\ ResizeClockParked /\ SpyParked

SpecNav == InitNav /\ [][NavNext]_vars

InitSpy ==
    /\ SpyStart /\ CarouselParked /\ ThemeParked /\ NavParked /\ ModalParked
    /\ AnimParked /\ BootParked /\ ResizeClockParked

SpecSpy == InitSpy /\ [][SpyNext]_vars

InitModal ==
    /\ ModalStart /\ CarouselParked /\ ThemeParked
    /\ NavParked /\ AnimParked /\ BootParked
    /\ ResizeClockParked /\ SpyParked

SpecModal == InitModal /\ [][ModalNext]_vars

InitAnim ==
    /\ AnimStart /\ CarouselParked /\ ThemeParked
    /\ NavParked /\ ModalParked /\ BootParked
    /\ ResizeClockParked /\ SpyParked

SpecAnim == InitAnim /\ [][AnimNext]_vars

InitSetup ==
    /\ SetupBegin /\ CarouselParked /\ ThemeParked
    /\ NavParked /\ ModalParked /\ BootParked
    /\ ResizeClockParked /\ SpyParked

SpecSetup == InitSetup /\ [][SetupNext]_vars

\* a first visit: the store is writable and holds no theme yet
InitBoot ==
    /\ ThemeStart /\ ts.storeMode = "ok" /\ ts.stored = NoValue
    /\ BootStart
    /\ carousel = [phase |-> "parked"] /\ resizeTimeout = FALSE
    /\ hovering = FALSE /\ last = [op |-> "none"] /\ sess = NoSession
    /\ NavParked /\ ModalParked /\ AnimParked
    /\ ResizeClockParked /\ SpyParked

SpecBoot == InitBoot /\ [][BootNext]_vars

(***************************************************************************)
(* Properties of the Carousel, checked under SpecCarousel.                 *)
(***************************************************************************)
MaxIndexOf(c) == IF c.totalSlides - c.slidesToShow > 0
                 THEN c.totalSlides - c.slidesToShow ELSE 0

NetDisplacement == sess.lastX - sess.downX

\* C1: in non-infinite mode, after every handler (next, prev, goToSlide with
\* any integer, a drag release, a debounced resize recomputation)
\* 0 <= currentIndex <= max(0, totalSlides - slidesToShow).
Thm_C1_IndexInRange ==
    ~carousel.infinite =>
        /\ 0 <= carousel.currentIndex
        /\ carousel.currentIndex <= MaxIndexOf(carousel)

\* A resize recomputation has left a non-infinite carousel on its last index,
\* away from 0.
Wit_C1_ResizeAtMax ==
    /\ last.op = "resize"
    /\ ~carousel.infinite
    /\ carousel.currentIndex = MaxIndexOf(carousel)
    /\ carousel.currentIndex > 0
    /\ carousel.slidesToShow > 1

\* C2: goToSlide(i) leaves currentIndex = i clamped into [0, maxIndex], for
\* every integer i: 0 below the range, maxIndex above it, i inside it.
Thm_C2_GoToSlideClamps ==
    last.op = "goToSlide" =>
        carousel.currentIndex =
            IF last.arg < 0 THEN 0
            ELSE IF last.arg > MaxIndexOf(carousel) THEN MaxIndexOf(carousel)
            ELSE last.arg

\* The scenario of the specification: 6 slides, 3 shown, goToSlide(10) ends on 3.
Wit_C2_SixSlidesGoTo10 ==
    /\ last = [op |-> "goToSlide", arg |-> 10]
    /\ carousel.totalSlides = 6
    /\ carousel.slidesToShow = 3
    /\ carousel.currentIndex = 3

\* C3: next() and prev() move currentIndex by one step inside [0, maxIndex];
\* at the bound a non-infinite carousel stays, an infinite one wraps to the
\* opposite bound.
Thm_C3_NextPrevStep ==
    [][ /\ last'.op = "next" =>
             carousel'.currentIndex =
                 IF carousel.currentIndex < MaxIndexOf(carousel)
                 THEN carousel.currentIndex + 1
                 ELSE IF carousel.infinite THEN 0 ELSE carousel.currentIndex
        /\ last'.op = "prev" =>
             carousel'.currentIndex =
                 IF carousel.currentIndex > 0
                 THEN carousel.currentIndex - 1
                 ELSE IF carousel.infinite THEN MaxIndexOf(carousel)
                 ELSE carousel.currentIndex
        /\ last'.op \in {"next", "prev"} =>
             /\ 0 <= carousel'.currentIndex
             /\ carousel'.currentIndex <= MaxIndexOf(carousel) ]_vars

\* next() has wrapped an infinite carousel from its last index to 0.
Wit_C3_NextWrapped ==
    /\ last.op = "next"
    /\ carousel.infinite
    /\ carousel.currentIndex = 0
    /\ MaxIndexOf(carousel) > 0

Orig_C5_NegativeDragStaysAtZero ==
    (/\ last.op = "dragEnd"
     /\ sess.clean
     /\ ~carousel.infinite
     /\ sess.origin = 0
     /\ NetDisplacement < 0 - threshold)
        => carousel.currentIndex = 0

\* C5 as amended: in non-infinite mode a drag from index 0 whose net
\* displacement is beyond the threshold in the positive direction (the pointer
\* moved right, towards the previous slide) leaves currentIndex at 0.
Thm_C5_PositiveDragStaysAtZero ==
    (/\ last.op = "dragEnd"
     /\ sess.clean
     /\ ~carousel.infinite
     /\ sess.origin = 0
     /\ NetDisplacement > threshold)
        => carousel.currentIndex = 0

\* A drag of more than 50px to the right has ended on index 0 of a
\* non-infinite carousel that has further slides.
Wit_C5_RightDragAtZero ==
    /\ last.op = "dragEnd"
    /\ sess.clean
    /\ ~carousel.infinite
    /\ sess.origin = 0
    /\ NetDisplacement > threshold
    /\ MaxIndexOf(carousel) > 0
    /\ carousel.currentIndex = 0

(***************************************************************************)
(* Properties of the ThemeSwitcher, checked under SpecTheme.               *)
(***************************************************************************)
OSTheme == IF ts.osDark THEN DARK ELSE LIGHT

\* C6: if no explicit preference existed at startup and the user never
\* toggled, an OS color-scheme change after initialize() sets the applied
\* theme to the OS value.
Orig_C6_OSChangeFollowed ==
    (/\ ts.phase = "ready"
     /\ ts.button
     /\ ~ts.userActed
     /\ tlast.op = "osChange")
        => ts.dataTheme = OSTheme

\* C7: once an explicit preference has been persisted (found in the store at
\* startup, or written by a toggle), an OS color-scheme change alters neither
\* the applied theme nor the persisted value.
Thm_C7_OSChangeIgnored ==
    (tlast.op = "osChange" /\ ts.explicitPersisted) =>
        /\ ts.dataTheme = tlast.applied
        /\ ts.stored = tlast.stored

\* An OS change has been delivered and the applied theme, chosen by the user,
\* differs from the OS value.
Wit_C7_ThemeHeldAgainstOS ==
    /\ tlast.op = "osChange"
    /\ ts.explicitPersisted
    /\ ts.mqListeners > 0
    /\ ts.dataTheme # OSTheme

\* C8: in every state reached after initialize(), two toggle() calls in a row
\* bring back the applied theme and the persisted value they started from.
Thm_C8_ToggleTwice ==
    (tlast.op = "toggle" /\ tlast.run = 2) =>
        /\ ts.dataTheme = tlast.applied2
        /\ ts.stored = tlast.stored2

\* Two toggle() calls in a row have run against a store that took both writes.
Wit_C8_TwoToggles ==
    /\ tlast.op = "toggle"
    /\ tlast.run = 2
    /\ ts.storeMode = "ok"
    /\ ts.stored = ts.dataTheme
    /\ tlast.stored = Opposite(ts.dataTheme)

\* C9: when the store throws on read or write, initialize() and toggle() still
\* apply the theme to the document, toggle() still flips it, and no exception
\* leaves a handler.
Thm_C9_StoreFailureContained ==
    (ts.button /\ ts.storeMode # "ok" /\ tlast.op \in {"init", "toggle"}) =>
        /\ ~ts.uncaught
        /\ ts.dataTheme \in Themes
        /\ tlast.op = "toggle" => ts.dataTheme = Opposite(tlast.applied)
        /\ (tlast.op = "init" /\ tlast.stored = NoValue) => ts.dataTheme = OSTheme

\* toggle() has flipped the theme while every access to the store throws.
Wit_C9_ToggleStoreDenied ==
    /\ ts.button
    /\ ts.storeMode = "denied"
    /\ tlast.op = "toggle"
    /\ ts.dataTheme = Opposite(tlast.applied)
    /\ ts.stored = NoValue

\* C10: initialize() applies the persisted value if there is one, otherwise
\* dark if the OS signals dark, otherwise light; from then on the applied
\* theme is light or dark.
Thm_C10_Precedence ==
    /\ (ts.button /\ tlast.op = "init") =>
           ts.dataTheme = IF tlast.stored # NoValue THEN tlast.stored
                          ELSE IF ts.osDark THEN DARK ELSE LIGHT
    /\ (ts.button /\ ts.phase \in {"constructed", "ready"}) => ts.dataTheme \in Themes

\* initialize() has applied a persisted light theme although the OS signals dark.
Wit_C10_PersistedBeatsOS ==
    /\ ts.button
    /\ tlast.op = "init"
    /\ ts.phase = "constructed"
    /\ tlast.stored = LIGHT
    /\ ts.osDark
    /\ ts.dataTheme = LIGHT

(***************************************************************************)
(* Properties of the Navigation, checked under SpecNav.                    *)
(***************************************************************************)
CloseTriggers == {"toggleClick", "linkClick", "outsideClick", "escape"}

NavProgram(s) == [s EXCEPT !.op = "", !.wasOpen = FALSE, !.hid = FALSE]

\* C17: when the mobile menu is open, a click on the toggle, a click on a
\* link of the menu, a click outside the menu and the toggle, and the
\* Escape key each leave isOpen false, aria-expanded "false" and the page
\* scroll restored (no overflow lock on the body); the Escape key while the
\* menu is closed changes nothing.
Thm_C17_CloseTriggers ==
    [][ /\ (nav'.op \in CloseTriggers /\ nav.isOpen)
            => /\ ~nav'.isOpen
               /\ nav'.ariaExpanded = "false"
               /\ nav'.overflow = ""
        /\ (nav'.op = "escape" /\ ~nav.isOpen)
            => NavProgram(nav') = NavProgram(nav) ]_vars

Wit_C17_EscapeClosedOpenMenu ==
    /\ nav.op = "escape" /\ nav.wasOpen /\ nav.header
    /\ ~nav.isOpen /\ nav.ariaExpanded = "false" /\ nav.overflow = ""

\* C18: the mobile menu is taken out of the layout (display none) only when
\* at least 250 ms have passed since the most recent close(), and a hide
\* timer left by an earlier close() is cancelled, so that no more than one
\* is ever pending.
Orig_C18_HideAfterLatestClose ==
    /\ nav.hid => nav.sinceClose >= hideDelay
    /\ Len(nav.timers) <= 1

(***************************************************************************)
(* Properties of the Modal, checked under SpecModal.                       *)
(***************************************************************************)
ModalProgram(s) ==
    [s EXCEPT !.op = "", !.arg = "", !.wasOpen = FALSE, !.from = NoElement,
              !.openedFrom = NoElement, !.reopened = FALSE]

Thm_C15_ReopenReplaces ==
    [][ /\ (modal'.op = "open" /\ modal.isOpen)
            => /\ modal'.shown = modal'.arg
               /\ modal'.isOpen /\ modal'.active /\ modal'.locked
               /\ modal'.ariaHidden = "false"
        /\ modal'.op = "close"
            => /\ ~modal'.isOpen /\ ~modal'.active /\ ~modal'.locked
               /\ modal'.ariaHidden = "true" ]_vars

Wit_C15_ClosedAfterReopen ==
    /\ modal.op = "close" /\ modal.wasOpen /\ modal.reopened
    /\ ~modal.isOpen /\ ~modal.active /\ ~modal.locked

\* C16: while the modal is open, however many times it has been opened and
\* closed before, a Tab with the focus on the last focusable descendant of
\* the dialog moves the focus to the first one, and a Shift+Tab with the
\* focus on the first moves it to the last; the focus does not leave the
\* dialog from those positions.
Thm_C16_FocusTrapWraps ==
    [][ /\ (modal'.op = "tab" /\ modal.isOpen
                /\ modal.focus = modal.focusables)
            => modal'.focus = 1
        /\ (modal'.op = "shiftTab" /\ modal.isOpen /\ modal.focus = 1)
            => modal'.focus = modal.focusables ]_vars

Wit_C16_TabWrapsAfterCycles ==
    /\ modal.op = "tab" /\ modal.isOpen /\ modal.traps = MaxTraps
    /\ modal.focusables > 1 /\ modal.from = modal.focusables
    /\ modal.focus = 1

(***************************************************************************)
(* Properties of the AnimationController, checked under SpecAnim.          *)
(***************************************************************************)
\* C19: while the OS reduced-motion preference is active no element is
\* given the animate-hidden class, and at the end of an init() that runs
\* under the preference every element the content selectors match carries
\* animate-visible.
Thm_C19_ReducedMotionNeverHides ==
    /\ []((anim.op = "init" /\ anim.osReduce)
            => (anim.hidden = {} /\ Animatable \subseteq anim.visible))
    /\ [][anim'.osReduce => anim'.hidden \subseteq anim.hidden]_vars

Wit_C19_RevealedWhenReduced ==
    /\ anim.op = "change" /\ anim.osReduce /\ anim.setup # {}
    /\ anim.hidden = {} /\ Animatable \subseteq anim.visible

\* C20: a change of the OS reduced-motion preference at run time switches
\* the mode of the controller whatever the preference was when init() first
\* ran: after a change to reduce, observation is disconnected and every
\* element is visible; after a change to no-preference, the controller has
\* left the reduced mode and holds an observer again.
Orig_C20_ChangeSwitchesMode ==
    anim.op = "change" =>
        IF anim.osReduce
        THEN /\ anim.prefersReducedMotion
             /\ anim.observer = 0 /\ anim.observed = {}
             /\ anim.hidden = {} /\ Animatable \subseteq anim.visible
        ELSE /\ ~anim.prefersReducedMotion
             /\ anim.observer # 0

(***************************************************************************)
(* Properties of the entry point, checked under SpecBoot.                  *)
(***************************************************************************)
CompleteContainer(shape) == shape.viewport /\ shape.track /\ shape.slides > 0

\* C11: init() of the entry point never throws, whichever of its anchors
\* (theme control, menu toggle, mobile nav, header, modal backdrop,
\* carousel containers) the page offers, and when it has returned every
\* component whose anchors are there is initialized and every other one is
\* inert.
Orig_C11_BootstrapCompletes ==
    /\ boot.pc # "crashed"
    /\ boot.pc = "done" =>
        /\ (ts.clickListeners > 0) = ts.button
        /\ nav.listening = (boot.menuToggle /\ boot.mobileNav)
        /\ modal.listening = boot.backdrop
        /\ anim.op = "init"
        /\ \A t \in CarouselTypes :
            boot.carousels[t].built = boot.containers[t].present

\* C12: a Carousel constructed on a container that lacks the viewport, the
\* track or any slide throws nothing and is inert: no listener, no timer,
\* currentIndex 0.
Orig_C12_MissingAnchorInert ==
    \A t \in CarouselTypes :
        (boot.carousels[t].built /\ ~CompleteContainer(boot.containers[t]))
            => /\ ~boot.carousels[t].thrown
               /\ ~boot.carousels[t].listeners
               /\ ~boot.carousels[t].resizeListener
               /\ ~boot.carousels[t].obj.autoplayInterval
               /\ boot.carousels[t].obj.currentIndex = 0

(***************************************************************************)
(* Properties of the autoplay timer, checked under SpecAutoplay.           *)
(***************************************************************************)
\* C25: at most one autoplay interval timer is scheduled at any time, over
\* any interleaving of autoplay starts and stops, mouseenter, mouseleave,
\* drag start, drag end and timer ticks, and it is the one the instance
\* holds; with the autoplay option off no timer is ever scheduled.
Thm_C25_OneAutoplayTimer ==
    /\ carousel.liveIntervals <= 1
    /\ carousel.autoplayInterval <=> carousel.liveIntervals = 1
    /\ ~carousel.autoplay => carousel.liveIntervals = 0

Wit_C25_RestartedAfterDrag ==
    /\ last.op = "dragEnd" /\ carousel.autoplay /\ ~hovering
    /\ carousel.liveIntervals = 1 /\ carousel.currentIndex > 0

\* C26: while the pointer is over a carousel with autoplay on (after
\* mouseenter, before mouseleave) no autoplay timer is scheduled and no
\* timer tick moves the carousel, over any interleaving of hover, drag
\* start, drag end and mouseleave of the track.
Orig_C26_HoverPausesAutoplay ==
    (carousel.autoplay /\ hovering)
        => (carousel.liveIntervals = 0 /\ last.op # "tick")

(***************************************************************************)
(* Properties of the buttons and the live region, checked under            *)
(* SpecCarousel.                                                           *)
(***************************************************************************)
\* C27: at the end of every handler that can change currentIndex or
\* slidesToShow (goToSlide, next, prev, a drag release, the resize
\* recomputation), in non-infinite mode the prev button is disabled exactly
\* when currentIndex = 0 and the next button exactly when currentIndex >=
\* maxIndex; in infinite mode neither button is disabled.
Thm_C27_ButtonsReflectBounds ==
    IF carousel.infinite
    THEN ~carousel.prevDisabled /\ ~carousel.nextDisabled
    ELSE /\ carousel.prevDisabled <=> carousel.currentIndex = 0
         /\ carousel.nextDisabled <=>
                carousel.currentIndex >= MaxIndexOf(carousel)

Wit_C27_NextDisabledByResize ==
    /\ last.op = "resize" /\ ~carousel.infinite
    /\ carousel.nextDisabled /\ ~carousel.prevDisabled
    /\ carousel.currentIndex = MaxIndexOf(carousel)

\* C28: whenever a handler changes currentIndex the live region then reads
\* "Slide {currentIndex + 1} of {totalSlides}", and once the live region
\* exists its text agrees with currentIndex at the end of every handler.
Thm_C28_LiveRegionAnnounces ==
    /\ [](carousel.liveText # <<>> =>
            carousel.liveText = <<carousel.currentIndex + 1, carousel.totalSlides>>)
    /\ [][carousel'.currentIndex # carousel.currentIndex =>
            carousel'.liveText =
                <<carousel'.currentIndex + 1, carousel'.totalSlides>>]_vars

Wit_C28_AnnouncedAfterDrag ==
    /\ last.op = "dragEnd" /\ carousel.currentIndex = 2
    /\ carousel.liveText = <<3, carousel.totalSlides>>

(***************************************************************************)
(* Properties of the resize listener, checked under SpecResize.            *)
(***************************************************************************)
\* C29: a burst of resize events, each less than 150 ms after the one
\* before, causes exactly one recomputation of slidesToShow with one
\* re-snap to the current index, 150 ms after the last event of the burst;
\* at most one resize timer is pending at any time.
Thm_C29_ResizeDebounced ==
    /\ [](Len(rs.timers) <= 1)
    /\ [][last'.op = "resize" =>
            /\ rs.sinceEvent = resizeDelay
            /\ rs'.recomputes = 1 /\ rs'.timers = <<>>
            /\ carousel' = resizeRecompute(carousel, innerWidth)]_vars

Wit_C29_OneRecomputeAfterBurst ==
    /\ last.op = "resize" /\ rs.burst = MaxBurst /\ rs.recomputes = 1
    /\ rs.timers = <<>> /\ carousel.currentIndex > 0

(***************************************************************************)
(* Properties of the scroll spy, checked under SpecSpy.                    *)
(***************************************************************************)
MatchingSections ==
    {id \in Sections :
        /\ spy.pageYOffset + spyOffset >= spy.offsetTop[id]
        /\ spy.pageYOffset + spyOffset < spy.offsetTop[id] + spy.offsetHeight[id]}

LinksOf(id) == {i \in 1..Len(allNavLinks) : allNavLinks[i] = id}

\* C30: when the vertical spans of two or more registered sections contain
\* scrollY + 100, the links marked active after the update are those of
\* the first matching section in document order.
Orig_C30_FirstMatchWins ==
    (spy.op = "update" /\ Cardinality(MatchingSections) >= 2) =>
        spy.active = LinksOf(CHOOSE id \in MatchingSections :
                                \A other \in MatchingSections : id <= other)

(***************************************************************************)
(* Properties of the entrance animations, checked under SpecAnim.          *)
(***************************************************************************)
\* C21: every element receives its entrance animation class at most once
\* per page load, whatever the sequence of intersections, stagger timers
\* and changes of the reduced-motion preference.
Orig_C21_AnimatedAtMostOnce == \A e \in Elements : anim.applied[e] <= 1

\* the stagger timer of element e runs in this step
StaggerFired(e) ==
    /\ anim'.op = "staggerTimer"
    /\ \E t \in anim.timers \ anim'.timers : t.kind = "stagger" /\ t.el = e

\* C22: when a stagger container intersects at t0, its item k (from 0, in
\* document order) is revealed at t0 + k * 150 ms: the timer of the item
\* reveals it, and nothing else reveals it once the container has
\* intersected.
Orig_C22_StaggerRevealTimes ==
    [][\A c \in StaggerContainers : \A k \in 1..Len(getStaggeredItems(c)) :
         LET e == getStaggeredItems(c)[k]
         IN /\ (anim.since[c] >= 0 /\ anim'.applied[e] > anim.applied[e])
                   => anim.since[c] = (k - 1) * staggerDelay
            /\ StaggerFired(e) => anim'.applied[e] > anim.applied[e]]_vars

\* C23: animate-hidden is never on an interactive element or an element of
\* an excluded region, be it reached through a content selector or as a
\* member of a staggered group.
Orig_C23_InteractiveNeverHidden ==
    \A e \in Elements : shouldSkipElement(e) => e \notin anim.hidden

\* the observed targets whose intersection reveals e
TargetsOf(e) ==
    {e} \cup {c \in StaggerContainers :
                \E k \in 1..Len(getStaggeredItems(c)) : getStaggeredItems(c)[k] = e}

\* the elements that setup hides when motion is not reduced
HiddenBySetup == animInit(animConstructor(FALSE)).hidden

\* C24: once the timers have fired, every element that setup has hidden
\* and whose observed target has intersected is no longer hidden and
\* carries animate-visible without an animation class.
Orig_C24_IntersectedEndsVisible ==
    anim.timers = {} =>
        \A e \in Elements :
            (e \in HiddenBySetup /\ TargetsOf(e) \cap anim.intersected # {}) =>
                    /\ e \notin anim.hidden
                    /\ e \in anim.visible
                    /\ \A p \in anim.classes : p[1] # e

\* C31: an element recorded as animated is never recorded as not animated
\* again, whatever the sequence of intersections, stagger timers and
\* changes of the reduced-motion preference.
Orig_C31_AnimatedIsMonotonic ==
    [][anim.animatedElements \subseteq anim'.animatedElements]_vars

\* C36: once the reduced-motion preference is active at runtime no
\* animation class is added to any element: the timers that were pending
\* when observation was torn down animate nothing.
Orig_C36_NoAnimationWhenReduced ==
    [][(anim.prefersReducedMotion /\ anim'.prefersReducedMotion) =>
            /\ anim'.applied = anim.applied
            /\ anim'.classes \subseteq anim.classes]_vars

\* C37: across the changes of the OS preference the controller has at most
\* one change listener registered, so that every change event runs
\* handleChange once.
Orig_C37_OneChangeListener == anim.listeners <= 1

(***************************************************************************)
(* Properties of the registration of elements, checked under SpecSetup.    *)
(***************************************************************************)
\* the element has an animation kind or the setup mark
Registered(s, e) == e \in s.setup \/ s.animationType[e] # "none"

\* C32: registering an element that is already registered, be it as the
\* member of a staggered group, changes neither its animation kind, nor
\* its markers, nor its observation.
Orig_C32_RegistrationIdempotent ==
    [][(anim'.op = "setupElement" /\ ~SetupDone) =>
        LET e == SetupOrder[nextToSetup(anim)]
        IN Registered(anim, e) =>
            /\ anim'.animationType[e] = anim.animationType[e]
            /\ (e \in anim'.hidden) = (e \in anim.hidden)
            /\ (e \in anim'.visible) = (e \in anim.visible)
            /\ {p \in anim'.observed : p[2] = e} = {p \in anim.observed : p[2] = e}]_vars

(***************************************************************************)
(* Further properties of the Modal, checked under SpecModal.               *)
(***************************************************************************)
\* C33: at the end of every handler of the modal, isOpen is true iff the
\* backdrop has its active class iff aria-hidden is "false" iff the body
\* has the scroll-lock class.
Thm_C33_ModalStateConsistent ==
    modal.op # "new" =>
        /\ modal.isOpen <=> modal.active
        /\ modal.isOpen <=> modal.ariaHidden = "false"
        /\ modal.isOpen <=> modal.locked

Wit_C33_EscapeClosedReopenedModal ==
    /\ modal.op = "escape" /\ modal.wasOpen /\ modal.reopened
    /\ ~modal.isOpen /\ ~modal.active /\ ~modal.locked
    /\ modal.ariaHidden = "true"

\* C35: while the modal is closed no timer of an earlier open() moves the
\* focus: the focus stays where close() has put it.
Orig_C35_NoFocusTimerAfterClose ==
    [][(modal'.op = "focusTimer" /\ ~modal.isOpen) =>
            modal'.focus = modal.focus]_vars

(***************************************************************************)
(* Further properties of the Navigation, checked under SpecNav.            *)
(***************************************************************************)
\* C38: the mobile menu is never taken out of the layout while it is open:
\* whenever isOpen is true the display of the menu is block, however
\* open(), close() and the hide timers interleave.
Thm_C38_OpenMenuIsDisplayed == nav.isOpen => nav.display = "block"

Wit_C38_StaleTimerSparesOpenMenu ==
    /\ nav.op = "hideTimer" /\ nav.isOpen /\ nav.wasOpen
    /\ nav.display = "block" /\ ~nav.hid

(***************************************************************************)
(* Further properties of the ThemeSwitcher, checked under SpecTheme.       *)
(***************************************************************************)
\* C34: after the entry point has run, one click on the theme control
\* runs toggle() once: one click listener and one listener of the OS
\* preference are registered, and the applied theme after the click is the
\* opposite of the one before it.
Orig_C34_ClickTogglesOnce ==
    (ts.phase = "ready" /\ ts.button) =>
        /\ ts.clickListeners = 1 /\ ts.mqListeners = 1
        /\ tlast.op = "click" => ts.dataTheme = Opposite(tlast.applied)

\* C39: after initialize() and after every toggle() or update from the OS,
\* the applied theme is light or dark, the label of the control names the
\* opposite theme, and the persisted value is the applied theme when the
\* store accepts writes.
Thm_C39_ThemeStateConsistent ==
    (ts.button /\ ts.phase \in {"constructed", "ready"}) =>
        /\ ts.dataTheme \in Themes
        /\ ts.ariaLabel = "Switch to light theme" <=> ts.dataTheme = DARK
        /\ ts.ariaLabel = "Switch to dark theme" <=> ts.dataTheme = LIGHT
        /\ ts.storeMode = "ok" => ts.stored = ts.dataTheme

Wit_C39_ToggledToDarkAndSaved ==
    /\ tlast.op = "toggle" /\ tlast.applied = LIGHT /\ tlast.stored = LIGHT
    /\ ts.storeMode = "ok" /\ ts.dataTheme = DARK /\ ts.stored = DARK
    /\ ts.ariaLabel = "Switch to light theme"

=============================================================================
